---- MODULE Spec2Model ----
(***************************************************************************)
(* Model of the skip-selection view (src/src/App.tsx): the React state of  *)
(* App, the cancellable fetch started by its effect, the click handlers    *)
(* of the cards and the derived display (grid, prices, continue button).   *)
(*                                                                         *)
(* Conventions.  A nullable value is a sequence of length <= 1: None is    *)
(* JavaScript's null, Some(x) a present value.  A string that the code     *)
(* builds from a template is a sequence of pieces: the literal chunks of   *)
(* the template and, for an interpolated number, its decimal digits.  An   *)
(* amount of money is carried in hundredths, which is exact for the        *)
(* integer prices and percentages the model draws (P + P*V/100 is then a   *)
(* multiple of 1/100, and IEEE doubles round it to the same whole number). *)
(***************************************************************************)
EXTENDS Integers, Sequences, FiniteSets, TLC

VARIABLES
    skips,          \* useState<Skip[]>([])
    selectedSkip,   \* useState<Skip | null>(null)
    loading,        \* useState(true)
    error,          \* useState<string | null>(null)
    mounted,        \* the effect's closure flag
    aborted,        \* controller.signal.aborted
    pc,             \* position of fetchSkips
    response,       \* the Response fetch resolved with, if any
    data,           \* the value response.json() resolved with, if any
    jsonCalled,     \* whether response.json() was called
    caught,         \* the value the catch clause received, if any
    requests,       \* number of calls of fetch in this page load
    log,            \* console output of this page load
    lastClick       \* the last click on a card: index, element clicked, selection before

vars == <<skips, selectedSkip, loading, error, mounted, aborted, pc,
          response, data, jsonCalled, caught, requests, log, lastClick>>

-----------------------------------------------------------------------------
(* Bounds *)

MaxLen == 7         \* longest response array the transport delivers
MaxPrice == 6       \* |price_before_vat| of the one-item responses
MaxVat == 25        \* |vat| of the one-item responses

-----------------------------------------------------------------------------
(* Values *)

None == <<>>
Some(x) == <<x>>

Min(a, b) == IF a < b THEN a ELSE b
Max(a, b) == IF a > b THEN a ELSE b

\* interface Skip, reduced to the fields the behaviour depends on
Skip(id, price, vat, forbidden) ==
    [id |-> id, price_before_vat |-> price, vat |-> vat, forbidden |-> forbidden]

\* the items of the longer responses; one of them is marked forbidden
Items == { Skip(1, 200, 20, FALSE), Skip(2, 5, 10, TRUE) }

\* the items of the one-item responses: every price and percentage in range
WideItems ==
    { Skip(9, p, v, FALSE) : p \in (0 - MaxPrice)..MaxPrice, v \in (0 - MaxVat)..MaxVat }

SeqsUpTo(S, n) == UNION { [1..k -> S] : k \in 0..n }

\* the arrays a response body can parse to
Bodies == SeqsUpTo(Items, MaxLen) \cup { <<it>> : it \in WideItems }

\* a parsed JSON value: an array with its elements, or something else
ArrayValue(elems) == [kind |-> "array", elems |-> elems]
NonArrayValue(kind) == [kind |-> kind, elems |-> <<>>]
NonArrayKinds == {"object", "null", "string", "number"}

JsonValues == { ArrayValue(b) : b \in Bodies } \cup { NonArrayValue(k) : k \in NonArrayKinds }

\* Array.isArray replaced by a typeof check, which objects pass too
IsArray_typeof(v) == v.kind \in {"array", "object"}

\* Array.isArray
IsArray(v) == v.kind = "array"

\* a click on card i, on the card itself or on its button, and the selection it found
Click(i, target, before) == [index |-> i, target |-> target, before |-> before]
NoClick == Click(0, "none", None)

\* HTTP status codes the transport answers with
Statuses == {200, 201, 304, 404, 500}

\* Response.ok
Ok(status) == status >= 200 /\ status <= 299

\* a thrown value: an Error (or DOMException) with its name and message
ErrorValue(name, message) == [isError |-> TRUE, name |-> name, message |-> message]

\* rejections of fetch() that are not cancellations
TransportErrors == { ErrorValue("TypeError", <<"Failed to fetch">>),
                     ErrorValue("TypeError", <<"NetworkError when attempting to fetch resource.">>) }

\* rejections of response.json() that are not cancellations
BodyErrors == { ErrorValue("SyntaxError", <<"Unexpected end of JSON input">>),
                ErrorValue("TypeError", <<"Failed to fetch">>) }

\* the rejection of an aborted request
AbortError == ErrorValue("AbortError", <<"The user aborted a request.">>)

\* a request rejects with AbortError only once its signal is aborted
FetchRejections == TransportErrors \cup (IF aborted THEN {AbortError} ELSE {})
JsonRejections == BodyErrors \cup (IF aborted THEN {AbortError} ELSE {})

-----------------------------------------------------------------------------
(* Pure functions *)

DigitChars == <<"0", "1", "2", "3", "4", "5", "6", "7", "8", "9">>

RECURSIVE Digits(_)
\* decimal rendering of a natural number in a template literal
Digits(n) ==
    IF n < 10 THEN <<DigitChars[n + 1]>>
    ELSE Digits(n \div 10) \o <<DigitChars[(n % 10) + 1]>>

\* the message without the interpolated status
HttpErrorMessage_nostatus(status) == <<"HTTP error! status: ">>

\* `HTTP error! status: ${response.status}`
HttpErrorMessage(status) == <<"HTTP error! status: ">> \o Digits(status)

InvalidFormatMessage == <<"Invalid data format received">>

\* Array.prototype.slice(start, end)
Slice(s, start, end) ==
    LET len == Len(s)
        k == IF start < 0 THEN Max(len + start, 0) ELSE Min(start, len)
        final == IF end < 0 THEN Max(len + end, 0) ELSE Min(end, len)
    IN  SubSeq(s, k + 1, final)

DisplayCap == 6

\* an off-by-one display cap
Truncate_five(elems) == Slice(elems, 0, DisplayCap - 1)

\* data.slice(0, 6)
Truncate(elems) == Slice(elems, 0, DisplayCap)

\* calculateFinalPrice, in hundredths
calculateFinalPrice(skip) ==
    (skip.price_before_vat * 100) + (skip.price_before_vat * skip.vat)

\* Math.floor in place of Math.round
MathRound_floor(h) == h \div 100

\* Math.round of an amount in hundredths: floor(x + 0.5)
MathRound(h) == (h + 50) \div 100

-----------------------------------------------------------------------------
(* fetchSkips: catch and finally *)

\* the value of `error` after the catch clause ran on err
CatchError(err, m, e) ==
    IF m
    THEN IF err.isError
         THEN IF err.name = "AbortError"
              THEN e
              ELSE <<"Failed to load skips: ">> \o err.message
         ELSE <<"An unexpected error occurred">>
    ELSE e

\* the console after the catch clause ran on err
CatchLog(err, m, l) ==
    IF m
    THEN IF err.isError /\ err.name = "AbortError"
         THEN l \o <<"log: Request was aborted", "error: Error fetching skips:">>
         ELSE l \o <<"error: Error fetching skips:">>
    ELSE l

\* the finally clause without its mounted check
FinallyLoading_ungated(m, l) == FALSE

\* a finally clause that forgets to clear loading
FinallyLoading_kept(m, l) == l

\* the finally clause with its mounted check inverted
FinallyLoading_inverted(m, l) == IF m THEN l ELSE FALSE

\* the value of `loading` after the finally clause
FinallyLoading(m, l) == IF m THEN FALSE ELSE l

\* fetchSkips leaves its try block by throwing err
Throws(err) ==
    /\ caught' = Some(err)
    /\ error' = CatchError(err, mounted, error)
    /\ log' = CatchLog(err, mounted, log)
    /\ loading' = FinallyLoading(mounted, loading)
    /\ pc' = "done"

-----------------------------------------------------------------------------
(* Display *)

\* the early return of the error panel
View == IF error # None THEN "errorPanel" ELSE "main"

\* the cards of the grid: placeholders while loading, else skips.map
Cards == IF View = "main" /\ ~loading THEN skips ELSE <<>>

\* SkipCard: finalPrice
CardPrice(i) == MathRound(calculateFinalPrice(Cards[i]))

\* the price of the selection summary
SummaryPrice == MathRound(calculateFinalPrice(selectedSkip[1]))

\* a continue button that only waits for the load
ContinueDisabled_loadingOnly == loading

\* the continue button: disabled={!selectedSkip || loading}
ContinueDisabled == selectedSkip = None \/ loading

ContinueEnabled == View = "main" /\ ~ContinueDisabled

-----------------------------------------------------------------------------
(* Operations *)

Init ==
    /\ skips = <<>>
    /\ selectedSkip = None
    /\ loading = TRUE
    /\ error = None
    /\ mounted = FALSE
    /\ aborted = FALSE
    /\ pc = "init"
    /\ response = None
    /\ data = None
    /\ jsonCalled = FALSE
    /\ caught = None
    /\ requests = 0
    /\ log = <<>>
    /\ lastClick = NoClick

\* the effect runs: fetchSkips up to its first await
Mount ==
    /\ pc = "init"
    /\ mounted' = TRUE
    /\ aborted' = FALSE
    /\ loading' = TRUE
    /\ error' = None
    /\ requests' = requests + 1
    /\ pc' = "awaitFetch"
    /\ UNCHANGED <<skips, selectedSkip, response, data, jsonCalled, caught, log, lastClick>>

\* fetch resolves with a response of the given status
FetchResolves(status) ==
    /\ pc = "awaitFetch"
    /\ response' = Some([status |-> status])
    /\ IF ~Ok(status)
       THEN /\ Throws(ErrorValue("Error", HttpErrorMessage(status)))
            /\ UNCHANGED jsonCalled
       ELSE /\ jsonCalled' = TRUE
            /\ pc' = "awaitJson"
            /\ UNCHANGED <<caught, error, log, loading>>
    /\ UNCHANGED <<skips, selectedSkip, mounted, aborted, data, requests, lastClick>>

\* a rejection that is answered by issuing the request again
FetchRejects_retry(err) ==
    /\ pc = "awaitFetch"
    /\ requests' = requests + 1
    /\ caught' = Some(err)
    /\ UNCHANGED <<skips, selectedSkip, loading, error, mounted, aborted, pc, response, data,
                   jsonCalled, log, lastClick>>

\* fetch rejects
FetchRejects(err) ==
    /\ pc = "awaitFetch"
    /\ Throws(err)
    /\ UNCHANGED <<skips, selectedSkip, mounted, aborted, response, data, jsonCalled,
                   requests, lastClick>>

\* response.json() resolves with a parsed value
JsonResolves(value) ==
    /\ pc = "awaitJson"
    /\ data' = Some(value)
    /\ IF mounted
       THEN IF ~IsArray(value)
            THEN /\ Throws(ErrorValue("Error", InvalidFormatMessage))
                 /\ UNCHANGED skips
            ELSE /\ skips' = Truncate(value.elems)
                 /\ loading' = FinallyLoading(mounted, loading)
                 /\ pc' = "done"
                 /\ UNCHANGED <<caught, error, log>>
       ELSE /\ loading' = FinallyLoading(mounted, loading)
            /\ pc' = "done"
            /\ UNCHANGED <<skips, caught, error, log>>
    /\ UNCHANGED <<selectedSkip, mounted, aborted, response, jsonCalled, requests, lastClick>>

\* response.json() rejects
JsonRejects(err) ==
    /\ pc = "awaitJson"
    /\ Throws(err)
    /\ UNCHANGED <<skips, selectedSkip, mounted, aborted, response, data, jsonCalled,
                   requests, lastClick>>

\* the effect's cleanup
Teardown ==
    /\ mounted
    /\ mounted' = FALSE
    /\ aborted' = TRUE
    /\ UNCHANGED <<skips, selectedSkip, loading, error, pc, response, data, jsonCalled,
                   caught, requests, log, lastClick>>

\* a card click that stores a copy of the item carrying its gross price
ClickCard_copy(i) ==
    /\ mounted
    /\ i \in 1..Len(Cards)
    /\ selectedSkip' = Some([Cards[i] EXCEPT !.price_before_vat = CardPrice(i)])
    /\ lastClick' = Click(i, "card", selectedSkip)
    /\ UNCHANGED <<skips, loading, error, mounted, aborted, pc, response, data, jsonCalled,
                   caught, requests, log>>

\* a card click that deselects the item when it is already selected
ClickCard_toggle(i) ==
    /\ mounted
    /\ i \in 1..Len(Cards)
    /\ selectedSkip' = IF selectedSkip = Some(Cards[i]) THEN None ELSE Some(Cards[i])
    /\ lastClick' = Click(i, "card", selectedSkip)
    /\ UNCHANGED <<skips, loading, error, mounted, aborted, pc, response, data, jsonCalled,
                   caught, requests, log>>

\* click on card i outside its button: onClick={() => setSelectedSkip(skip)}
ClickCard(i) ==
    /\ mounted
    /\ i \in 1..Len(Cards)
    /\ selectedSkip' = Some(Cards[i])
    /\ lastClick' = Click(i, "card", selectedSkip)
    /\ UNCHANGED <<skips, loading, error, mounted, aborted, pc, response, data, jsonCalled,
                   caught, requests, log>>

\* click on the button of card i: stopPropagation, then setSelectedSkip(skip)
ClickSelectButton(i) ==
    /\ mounted
    /\ i \in 1..Len(Cards)
    /\ selectedSkip' = Some(Cards[i])
    /\ lastClick' = Click(i, "button", selectedSkip)
    /\ UNCHANGED <<skips, loading, error, mounted, aborted, pc, response, data, jsonCalled,
                   caught, requests, log>>

\* "Try Again" on the error panel: window.location.reload()
Reload ==
    /\ mounted
    /\ View = "errorPanel"
    /\ skips' = <<>>
    /\ selectedSkip' = None
    /\ loading' = TRUE
    /\ error' = None
    /\ mounted' = FALSE
    /\ aborted' = FALSE
    /\ pc' = "init"
    /\ response' = None
    /\ data' = None
    /\ jsonCalled' = FALSE
    /\ caught' = None
    /\ requests' = 0
    /\ log' = <<>>
    /\ lastClick' = NoClick

Next ==
    \/ Mount
    \/ \E status \in Statuses : FetchResolves(status)
    \/ \E err \in FetchRejections : FetchRejects(err)
    \/ \E value \in JsonValues : JsonResolves(value)
    \/ \E err \in JsonRejections : JsonRejects(err)
    \/ Teardown
    \/ \E i \in 1..DisplayCap : ClickCard(i)
    \/ \E i \in 1..DisplayCap : ClickSelectButton(i)
    \/ Reload

Spec == Init /\ [][Next]_vars

TypeOK ==
    /\ loading \in BOOLEAN
    /\ mounted \in BOOLEAN
    /\ aborted \in BOOLEAN
    /\ pc \in {"init", "awaitFetch", "awaitJson", "done"}
    /\ Len(selectedSkip) <= 1
    /\ requests \in Nat

-----------------------------------------------------------------------------
(* The loader's states *)

Pending == loading /\ error = None /\ skips = <<>>
Ready == ~loading /\ error = None
Failed == ~loading /\ error # None /\ skips = <<>>

\* the number a sequence of digit pieces spells, -1 if it is not one
RECURSIVE DecimalValue(_)
DecimalValue(s) ==
    IF s = <<>> THEN -1
    ELSE LET last == s[Len(s)]
             d == IF \E k \in 1..10 : DigitChars[k] = last
                  THEN (CHOOSE k \in 1..10 : DigitChars[k] = last) - 1
                  ELSE -1
             front == SubSeq(s, 1, Len(s) - 1)
         IN  IF d = -1 THEN -1
             ELSE IF front = <<>> THEN d
             ELSE IF DecimalValue(front) = -1 THEN -1
             ELSE (10 * DecimalValue(front)) + d

\* the text contains the decimal numeral of n
ContainsNumber(text, n) ==
    \E i \in 1..Len(text) : \E j \in i..Len(text) : DecimalValue(SubSeq(text, i, j)) = n

-----------------------------------------------------------------------------
(* Properties *)

\* C1: once teardown has run (mounted false, request aborted), no later event
\* of the fetch changes skips, error or loading, and a caught cancellation
\* never leaves an error message behind.
NoMutationAfterTeardown ==
    /\ [][aborted => UNCHANGED <<skips, error, loading>>]_vars
    /\ []((caught # None /\ caught[1].name = "AbortError") => (error = None /\ ~Failed))

\* C1 witness: the request was aborted while pending and its rejection arrived
LateAbortArrived ==
    aborted /\ ~mounted /\ pc = "done" /\ caught = Some(AbortError) /\ loading

\* C2: a successful array response of N elements, arriving while mounted, makes
\* the loader Ready and displays exactly the first min(N, 6) elements in
\* received order, forbidden ones included.
ReadyShowsFirstSix ==
    [][(pc = "awaitJson" /\ mounted /\ data' # None /\ data'[1].kind = "array")
        => LET elems == data'[1].elems
           IN  /\ Ready'
               /\ Len(Cards') = Min(Len(elems), 6)
               /\ \A i \in 1..Len(Cards') : Cards'[i] = elems[i]
               /\ skips' = Cards']_vars

\* C2 witness: seven elements arrived, six are shown, a forbidden one among them
SevenArrivedSixShown ==
    /\ mounted /\ data # None /\ data[1].kind = "array"
    /\ Len(data[1].elems) = 7
    /\ Len(Cards) = 6
    /\ \E i \in 1..Len(Cards) : Cards[i].forbidden

\* C3: a response with a non-success status S, arriving while mounted, ends the
\* load in Failed with a message containing S; the body is neither parsed nor
\* stored.
BadStatusFails ==
    [][(pc = "awaitFetch" /\ mounted /\ response' # None /\ ~(response'[1].status \in 200..299))
        => /\ Failed'
           /\ pc' = "done"
           /\ ContainsNumber(error', response'[1].status)
           /\ ~jsonCalled'
           /\ data' = None]_vars

\* C3 witness: a 404 arrived while mounted
NotFoundShown ==
    /\ mounted /\ pc = "done" /\ response = Some([status |-> 404])
    /\ error = <<"Failed to load skips: ", "HTTP error! status: ", "4", "0", "4">>

\* C4: a successful response whose body is not an array, arriving while
\* mounted, ends the load in Failed with one fixed message, and the item list
\* stays empty.
NonArrayFails ==
    [][(pc = "awaitJson" /\ mounted /\ data' # None /\ data'[1].kind # "array")
        => /\ Failed'
           /\ error' = <<"Failed to load skips: ", "Invalid data format received">>
           /\ skips' = skips
           /\ skips' = <<>>]_vars

\* C4 witness: an object body arrived while mounted
ObjectBodyShown ==
    /\ mounted /\ pc = "done" /\ data = Some(NonArrayValue("object"))
    /\ error = <<"Failed to load skips: ", "Invalid data format received">>

\* C5: the loader is always in exactly one of Pending, Ready and Failed; it is
\* never loading with an error, and never failed with items.
ExactlyOneLoaderState ==
    /\ Pending \/ Ready \/ Failed
    /\ ~(Pending /\ Ready) /\ ~(Pending /\ Failed) /\ ~(Ready /\ Failed)
    /\ ~(loading /\ error # None)
    /\ error # None => skips = <<>>

\* C5 witness: a load that failed
LoadFailed == pc = "done" /\ Failed /\ caught # None

\* C6: one activation issues exactly one request, and a failure is left only
\* by a full reload: until then the error stays and no request is issued.
OneRequestFailureTerminal ==
    /\ [](requests <= 1 /\ (pc # "init" => requests = 1))
    /\ [][requests' <= 1]_vars
    /\ [][error # None => (pc' = "init" \/ (error' = error /\ Failed' /\ requests' = requests))]_vars

\* C6 witness: the transport rejected and the one request has failed
TransportFailed ==
    /\ pc = "done" /\ Failed /\ requests = 1
    /\ caught # None /\ caught[1] \in TransportErrors /\ response = None

\* C7: the selection is empty or one item of the loaded batch, and exists only
\* when the loader is Ready.
SelectionFromBatch ==
    /\ Len(selectedSkip) <= 1
    /\ selectedSkip # None =>
          /\ \E i \in 1..Len(skips) : skips[i] = selectedSkip[1]
          /\ Ready

\* C7 witness: an item is selected
SomethingSelected == selectedSkip # None /\ lastClick.index # 0

\* C8: a click on a card or its button makes that item the selection, whatever
\* was selected before, and a selection never becomes empty again while the
\* view stays mounted.
ClickSelectsAndSticks ==
    /\ [](lastClick.index # 0 => selectedSkip = Some(skips[lastClick.index]))
    /\ [][(selectedSkip # None /\ mounted') => selectedSkip' # None]_vars

\* C8 witness: B was clicked, on its button, while a different item A was selected
ReplacedSelection ==
    /\ lastClick.index # 0 /\ lastClick.target = "button"
    /\ lastClick.before # None /\ lastClick.before # selectedSkip
    /\ selectedSkip = Some(skips[lastClick.index])

\* C9: the continue action is enabled exactly when an item is selected and
\* loading is over; it is disabled initially and while nothing is selected.
ContinueIffSelected ==
    /\ ContinueEnabled <=> (selectedSkip # None /\ ~loading)
    /\ selectedSkip = None => ~ContinueEnabled
    /\ pc = "init" => ~ContinueEnabled

\* C9 witness: the continue action is enabled
ContinueIsEnabled == ContinueEnabled /\ mounted

\* a whole number r is one nearest to p + p*v/100
Nearest(r, p, v) ==
    LET exact == (100 * p) + (p * v)
    IN  (100 * r) - exact \in (0 - 50)..50

\* the price r shown for an item meets the claim
PriceAsClaimed(r, item) ==
    LET p == item.price_before_vat
        v == item.vat
    IN  /\ Nearest(r, p, v)
        /\ (p >= 0 /\ v >= 0) => r >= 0
        /\ (p = 200 /\ v = 20) => r = 240

\* C10: the price shown on every card and in the selection summary is
\* P + P*V/100 rounded to the nearest whole unit, non-negative when P and V
\* are, and 240 for P = 200, V = 20.
DisplayedPriceRounded ==
    /\ \A i \in 1..Len(Cards) : PriceAsClaimed(CardPrice(i), Cards[i])
    /\ selectedSkip # None => PriceAsClaimed(SummaryPrice, selectedSkip[1])

\* C10 witness: an item of 3 at 25 percent is selected and shown as 4
RoundedUpShown ==
    /\ selectedSkip # None
    /\ selectedSkip[1].price_before_vat = 3 /\ selectedSkip[1].vat = 25
    /\ SummaryPrice = 4 /\ Len(Cards) = 1 /\ CardPrice(1) = 4

\* teardown aborted the outstanding request, whose rejection has since been caught
CancelledInFlight == aborted /\ loading /\ pc = "done" /\ caught = Some(AbortError)

\* C11: every run in which the in-flight request is aborted by teardown, and
\* every run that ends in Failed, has written a log entry.
LogOnCancelAndFailure ==
    /\ CancelledInFlight => log # <<>>
    /\ Failed => log # <<>>

-----------------------------------------------------------------------------
(* Progress *)

\* the transport settles the outstanding fetch, either way
FetchSettles ==
    \/ \E status \in Statuses : FetchResolves(status)
    \/ \E err \in FetchRejections : FetchRejects(err)

\* the transport settles the outstanding body read, either way
JsonSettles ==
    \/ \E value \in JsonValues : JsonResolves(value)
    \/ \E err \in JsonRejections : JsonRejects(err)

\* the effect runs after the first commit, and the transport settles every
\* request and body read it was handed
LiveSpec ==
    /\ Init
    /\ [][Next]_vars
    /\ WF_vars(Mount)
    /\ WF_vars(FetchSettles)
    /\ WF_vars(JsonSettles)

\* C12: unless the view is torn down, a started load eventually leaves Pending
\* and is then Ready or Failed; once loading is false it stays false and the
\* item list and the error no longer change for as long as the page lives.
LoadSettlesAndStays ==
    /\ (pc = "awaitFetch") ~> (aborted \/ (~loading /\ (Ready \/ Failed)))
    /\ []((pc = "done" /\ loading) => aborted)
    /\ [][(~loading /\ pc' # "init")
            => (~loading' /\ skips' = skips /\ error' = error)]_vars

\* C12 witness: the load settled with items while mounted, and a card was clicked since
SettledReadyWithItems ==
    /\ pc = "done" /\ mounted /\ ~aborted /\ Ready /\ skips # <<>>
    /\ jsonCalled /\ lastClick.target = "card"

====
